---- MODULE Spec2Model ----
(***************************************************************************)
(* Model of the Table component of src/src/Table.jsx (lines 33-269): its   *)
(* four pieces of hook state, its props, and the filter -> sort ->         *)
(* paginate pipeline that every render recomputes.                         *)
(*                                                                         *)
(* JavaScript values are tagged records so that values of different types  *)
(* can be compared.  A string is a sequence of one-character strings.  An  *)
(* array of row objects is a sequence of references; a reference is the    *)
(* index of the row object in the data prop, so two rows with the same     *)
(* content stay distinct objects.                                          *)
(***************************************************************************)
EXTENDS Integers, Sequences, FiniteSets

VARIABLES
    data,             \* prop: the record list
    columns,          \* prop: the column descriptors, as their accessors
    enableSorting,    \* prop
    pageSizeOptions,  \* prop
    onDelete,         \* prop: whether a delete callback is given
    onArchive,        \* prop: whether an archive callback is given
    currentPage,      \* useState(0)
    globalFilter,     \* useState('')
    sortConfig,       \* useState({key: null, direction: 'ascending'})
    currentPageSize,  \* useState(pageSize)
    engine,           \* the JavaScript engine the component runs on
    event,            \* history: the event the last step handled
    ascPass,          \* the sort stage applied alone: sort(L, key, ascending)
    descPass          \* the sort stage applied again: sort(ascPass, key, descending)

props == <<data, columns, enableSorting, pageSizeOptions, onDelete, onArchive, engine>>
hooks == <<currentPage, globalFilter, sortConfig, currentPageSize>>
harness == <<ascPass, descPass>>
vars == <<data, columns, enableSorting, pageSizeOptions, onDelete, onArchive, currentPage,
          globalFilter, sortConfig, currentPageSize, engine, event, ascPass, descPass>>

----------------------------------------------------------------------------
(* Bounds of the model. *)

\* Longest record list of the component specification.
MaxRows == 3

\* Longest record list of the filter-stage specification.
MaxLen == 2

\* Longest record list of the sort-stage specifications.
MaxSortLen == 3

\* Longest record list of the pagination-stage specification.
MaxPageRows == 5

\* Highest page index the next button is followed to when the page count is
\* infinite.
MaxPage == 3

----------------------------------------------------------------------------
(* JavaScript numbers: the integers, NaN, +Infinity and -Infinity. *)

Fin(i) == [k |-> "fin", v |-> i]
NaN == [k |-> "nan", v |-> 0]
Infinity == [k |-> "inf", v |-> 0]
NegInfinity == [k |-> "ninf", v |-> 0]

\* The sign of a number that is not NaN: -1, 0 or 1.
Sign(x) ==
    CASE x.k = "inf" -> 1
      [] x.k = "ninf" -> 0 - 1
      [] OTHER -> IF x.v > 0 THEN 1 ELSE IF x.v < 0 THEN 0 - 1 ELSE 0

\* x === y on numbers: NaN equals nothing.
NumEq(x, y) == x.k # "nan" /\ y.k # "nan" /\ x = y

\* x < y on numbers: false when either is NaN.
NumLt(x, y) ==
    /\ x.k # "nan" /\ y.k # "nan"
    /\ \/ x.k = "ninf" /\ y.k # "ninf"
       \/ y.k = "inf" /\ x.k # "inf"
       \/ x.k = "fin" /\ y.k = "fin" /\ x.v < y.v

\* x + y.
NumAdd(x, y) ==
    IF x.k = "nan" \/ y.k = "nan" THEN NaN
    ELSE IF x.k = "fin" /\ y.k = "fin" THEN Fin(x.v + y.v)
    ELSE IF x.k = "fin" THEN y
    ELSE IF y.k = "fin" \/ x.k = y.k THEN x
    ELSE NaN

\* x * y.
NumMul(x, y) ==
    IF x.k = "nan" \/ y.k = "nan" THEN NaN
    ELSE IF x.k = "fin" /\ y.k = "fin" THEN Fin(x.v * y.v)
    ELSE IF Sign(x) * Sign(y) = 0 THEN NaN
    ELSE IF Sign(x) * Sign(y) > 0 THEN Infinity
    ELSE NegInfinity

\* Math.min(x, y), Math.max(x, y): NaN when either is NaN.
MathMin(x, y) ==
    IF x.k = "nan" \/ y.k = "nan" THEN NaN
    ELSE IF NumLt(y, x) THEN y ELSE x

MathMax(x, y) ==
    IF x.k = "nan" \/ y.k = "nan" THEN NaN
    ELSE IF NumLt(x, y) THEN y ELSE x

\* Math.ceil(n / d) for an array length n >= 0 and a number d.
MathCeilDiv(n, d) ==
    CASE d.k = "nan" -> NaN
      [] d.k \in {"inf", "ninf"} -> Fin(0)
      [] OTHER ->
           IF d.v = 0 THEN (IF n = 0 THEN NaN ELSE Infinity)
           ELSE IF d.v > 0 THEN Fin((n + d.v - 1) \div d.v)
           ELSE Fin(0 - (n \div (0 - d.v)))

----------------------------------------------------------------------------
(* Strings and values. *)

\* The UTF-16 code unit of each character the model uses.
Code ==
    [c \in {"-", "0", "1", "2", "3", "4", "5", "6", "7", "8", "9",
            "A", "B", "C", "D", "a", "b", "c", "d", "e", "f", "i", "m", "n", "o", "u", "y"} |->
        CASE c = "-" -> 45
          [] c = "0" -> 48 [] c = "1" -> 49 [] c = "2" -> 50 [] c = "3" -> 51
          [] c = "4" -> 52 [] c = "5" -> 53 [] c = "6" -> 54 [] c = "7" -> 55
          [] c = "8" -> 56 [] c = "9" -> 57
          [] c = "A" -> 65 [] c = "B" -> 66 [] c = "C" -> 67 [] c = "D" -> 68
          [] c = "a" -> 97 [] c = "b" -> 98 [] c = "c" -> 99 [] c = "d" -> 100
          [] c = "e" -> 101 [] c = "f" -> 102 [] c = "i" -> 105 [] c = "m" -> 109
          [] c = "n" -> 110 [] c = "o" -> 111 [] c = "u" -> 117 [] c = "y" -> 121]

Digits == <<"0", "1", "2", "3", "4", "5", "6", "7", "8", "9">>

DigitValue(c) == CHOOSE d \in 0..9 : Digits[d + 1] = c

IsDigit(c) == \E d \in 0..9 : Digits[d + 1] = c

StrV(s) == [t |-> "string", s |-> s, n |-> 0]
NumV(i) == [t |-> "number", s |-> <<>>, n |-> i]
Undefined == [t |-> "undefined", s |-> <<>>, n |-> 0]

\* The decimal digits of a natural number.
RECURSIVE NatToString(_)
NatToString(i) ==
    IF i < 10 THEN <<Digits[i + 1]>>
    ELSE NatToString(i \div 10) \o <<Digits[(i % 10) + 1]>>

\* String(v).
String(v) ==
    CASE v.t = "string" -> v.s
      [] v.t = "number" -> IF v.n < 0 THEN <<"-">> \o NatToString(0 - v.n)
                           ELSE NatToString(v.n)
      [] OTHER -> <<"u", "n", "d", "e", "f", "i", "n", "e", "d">>

\* The value of a non-empty run of decimal digits.
RECURSIVE DigitsToNat(_)
DigitsToNat(s) ==
    IF Len(s) = 1 THEN DigitValue(s[1])
    ELSE 10 * DigitsToNat(SubSeq(s, 1, Len(s) - 1)) + DigitValue(s[Len(s)])

AllDigits(s) == s # <<>> /\ \A i \in 1..Len(s) : IsDigit(s[i])

\* Number(s) for a string of the model's characters: decimal integers with an
\* optional sign, 0 for the empty string, NaN for anything else.
StringToNumber(s) ==
    IF s = <<>> THEN Fin(0)
    ELSE IF AllDigits(s) THEN Fin(DigitsToNat(s))
    ELSE IF s[1] = "-" /\ AllDigits(Tail(s)) THEN Fin(0 - DigitsToNat(Tail(s)))
    ELSE NaN

\* ToNumber(v).
ToNumber(v) ==
    CASE v.t = "string" -> StringToNumber(v.s)
      [] v.t = "number" -> Fin(v.n)
      [] OTHER -> NaN

\* c.toLowerCase() for one character.
LowerChar(c) ==
    CASE c = "A" -> "a"
      [] c = "B" -> "b"
      [] c = "C" -> "c"
      [] c = "D" -> "d"
      [] OTHER -> c

\* s.toLowerCase().
ToLowerCase(s) == [i \in 1..Len(s) |-> LowerChar(s[i])]

\* Whether needle is a prefix of hay.
StartsWith(hay, needle) ==
    /\ Len(needle) <= Len(hay)
    /\ \A i \in 1..Len(needle) : hay[i] = needle[i]

\* hay.includes(needle) looking only at the positions of hay, so that an empty
\* hay includes nothing.
Includes_NonEmptyHay(hay, needle) ==
    \E k \in 1..Len(hay) : StartsWith(SubSeq(hay, k, Len(hay)), needle)

\* hay.includes(needle): a scan over the start positions.
RECURSIVE Includes(_, _)
Includes(hay, needle) ==
    \/ StartsWith(hay, needle)
    \/ hay # <<>> /\ Includes(Tail(hay), needle)

\* s < t on strings: lexicographic on code units.
RECURSIVE StringLt(_, _)
StringLt(s, t) ==
    IF t = <<>> THEN FALSE
    ELSE IF s = <<>> THEN TRUE
    ELSE IF Code[s[1]] < Code[t[1]] THEN TRUE
    ELSE IF Code[s[1]] > Code[t[1]] THEN FALSE
    ELSE StringLt(Tail(s), Tail(t))

\* a < b on values: strings compare as strings, anything else as numbers.
Less(a, b) ==
    IF a.t = "string" /\ b.t = "string" THEN StringLt(a.s, b.s)
    ELSE NumLt(ToNumber(a), ToNumber(b))

\* a > b on values.
Greater(a, b) == Less(b, a)

\* row[accessor]: undefined when the row has no such field.
Get(row, accessor) == IF accessor \in DOMAIN row THEN row[accessor] ELSE Undefined

----------------------------------------------------------------------------
(* The filter stage. *)

\* The callback of columns.some: whether the column's value in the row,
\* stringified and lower-cased, includes the lower-cased filter text.
ColumnMatches(row, accessor, filter) ==
    Includes(ToLowerCase(String(Get(row, accessor))), ToLowerCase(filter))

\* columns.every in place of columns.some.
RowMatches_Every(row, cols, filter) ==
    \A j \in 1..Len(cols) : ColumnMatches(row, cols[j], filter)

\* The callback of data.filter: columns.some(...).
RowMatches(row, cols, filter) ==
    \E j \in 1..Len(cols) : ColumnMatches(row, cols[j], filter)

\* data.filter(...) from position i on: the references of the matching rows,
\* in the order of the record list.
RECURSIVE FilterFrom(_, _, _, _)
FilterFrom(d, cols, filter, i) ==
    IF i > Len(d) THEN <<>>
    ELSE IF RowMatches(d[i], cols, filter)
         THEN <<i>> \o FilterFrom(d, cols, filter, i + 1)
         ELSE FilterFrom(d, cols, filter, i + 1)

Filter(d, cols, filter) == FilterFrom(d, cols, filter, 1)

----------------------------------------------------------------------------
(* The sort stage. *)

NullKey == [isNull |-> TRUE, name |-> ""]
Key(accessor) == [isNull |-> FALSE, name |-> accessor]

\* The comparator handed to Array.prototype.sort, on two row references.
Comparator(d, cfg, a, b) ==
    LET aValue == Get(d[a], cfg.key.name)
        bValue == Get(d[b], cfg.key.name)
    IN  IF Less(aValue, bValue) THEN (IF cfg.direction = "ascending" THEN 0 - 1 ELSE 1)
        ELSE IF Greater(aValue, bValue) THEN (IF cfg.direction = "ascending" THEN 1 ELSE 0 - 1)
        ELSE 0

\* Array.prototype.sort leaves the order to the engine when the comparator is
\* not a consistent comparison function for the elements, as it is not when a
\* value is undefined or NaN beside two values that differ.  The model has the
\* sorts two engines run on an array this short; under a consistent comparator
\* both give the one stable sorted order.
Engines == {"binaryInsertion", "insertion"}

\* list with x put in at 0-based position at.
InsertAt(list, at, x) == SubSeq(list, 1, at) \o <<x>> \o SubSeq(list, at + 1, Len(list))

\* Insertion sort, one element: x goes behind the last element of the sorted
\* prefix that does not compare greater than it, found from the right.
RECURSIVE LinearPosition(_, _, _, _, _)
LinearPosition(d, cfg, sorted, x, j) ==
    IF j = 0 THEN 0
    ELSE IF Comparator(d, cfg, sorted[j], x) <= 0 THEN j
    ELSE LinearPosition(d, cfg, sorted, x, j - 1)

\* Insertion sort (SpiderMonkey's sort of a short array).
RECURSIVE InsertionSort(_, _, _)
InsertionSort(d, cfg, list) ==
    IF Len(list) <= 1 THEN list
    ELSE LET sorted == InsertionSort(d, cfg, SubSeq(list, 1, Len(list) - 1))
             x == list[Len(list)]
         IN  InsertAt(sorted, LinearPosition(d, cfg, sorted, x, Len(sorted)), x)

\* V8's CountAndMakeRun: the 1-based end of the run that starts the list, from
\* position idx on.
RECURSIVE RunEnd(_, _, _, _, _)
RunEnd(d, cfg, list, isDescending, idx) ==
    IF idx > Len(list) THEN Len(list)
    ELSE LET order == Comparator(d, cfg, list[idx], list[idx - 1])
         IN  IF (isDescending /\ order >= 0) \/ (~isDescending /\ order < 0)
             THEN idx - 1
             ELSE RunEnd(d, cfg, list, isDescending, idx + 1)

\* The list reversed.
Reverse(list) == [i \in 1..Len(list) |-> list[Len(list) + 1 - i]]

\* V8's BinaryInsertionSort, the search: the 0-based position of the pivot in
\* the sorted prefix, between left and right.
RECURSIVE BinaryPosition(_, _, _, _, _, _)
BinaryPosition(d, cfg, sorted, pivot, left, right) ==
    IF left >= right THEN left
    ELSE LET mid == left + ((right - left) \div 2)
         IN  IF Comparator(d, cfg, pivot, sorted[mid + 1]) < 0
             THEN BinaryPosition(d, cfg, sorted, pivot, left, mid)
             ELSE BinaryPosition(d, cfg, sorted, pivot, mid + 1, right)

\* V8's BinaryInsertionSort: the elements behind the first start ones are put
\* into the sorted prefix one by one.
RECURSIVE BinaryInsertionSort(_, _, _, _)
BinaryInsertionSort(d, cfg, list, start) ==
    IF start >= Len(list) THEN list
    ELSE LET sorted == SubSeq(list, 1, start)
             pivot == list[start + 1]
             at == BinaryPosition(d, cfg, sorted, pivot, 0, start)
         IN  BinaryInsertionSort(d, cfg,
                 InsertAt(sorted, at, pivot) \o SubSeq(list, start + 2, Len(list)),
                 start + 1)

\* V8's sort of an array shorter than 64: the leading run is found (and
\* reversed when it descends), the rest is inserted into it.
TimSortShort(d, cfg, list) ==
    IF Len(list) < 2 THEN list
    ELSE LET isDescending == Comparator(d, cfg, list[2], list[1]) < 0
             run == RunEnd(d, cfg, list, isDescending, 3)
             made == IF isDescending
                     THEN Reverse(SubSeq(list, 1, run)) \o SubSeq(list, run + 1, Len(list))
                     ELSE list
         IN  BinaryInsertionSort(d, cfg, made, run)

\* list.sort(comparator) on the engine.
ArraySort(eng, d, cfg, list) ==
    IF eng = "binaryInsertion" THEN TimSortShort(d, cfg, list)
    ELSE InsertionSort(d, cfg, list)

\* The sort stage: a copy of the filtered list, sorted when a key is active.
SortStage(eng, d, cfg, filtered) ==
    IF ~cfg.key.isNull THEN ArraySort(eng, d, cfg, filtered) ELSE filtered

----------------------------------------------------------------------------
(* The pagination stage. *)

\* The clamping Array.prototype.slice applies to a start or an end.
RelativeIndex(x, len) ==
    CASE x.k = "nan" -> 0
      [] x.k = "inf" -> len
      [] x.k = "ninf" -> 0
      [] OTHER -> IF x.v < 0 THEN (IF len + x.v < 0 THEN 0 ELSE len + x.v)
                  ELSE (IF x.v > len THEN len ELSE x.v)

\* list.slice(start, end).
Slice(list, start, end) ==
    SubSeq(list, RelativeIndex(start, Len(list)) + 1, RelativeIndex(end, Len(list)))

TotalPages(sorted, size) == MathCeilDiv(Len(sorted), size)

\* The slice of a page taken one record too late.
CurrentData_OffByOne(sorted, page, size) ==
    Slice(sorted, NumAdd(NumMul(page, size), Fin(1)), NumAdd(NumAdd(NumMul(page, size), size), Fin(1)))

CurrentData(sorted, page, size) ==
    Slice(sorted, NumMul(page, size), NumAdd(NumMul(page, size), size))

\* The derived values of the current render.
filteredData == Filter(data, columns, globalFilter)
sortedData == SortStage(engine, data, sortConfig, filteredData)
totalPages == TotalPages(sortedData, currentPageSize)
currentData == CurrentData(sortedData, currentPage, currentPageSize)

----------------------------------------------------------------------------
(* The props and inputs the component specification draws from. *)

\* pageSize = 10, the default of the prop.
DefaultPageSize == 10

\* pageSizeOptions = [5, 10, 25, 50, 100], the default of the prop.
DefaultPageSizeOptions == <<5, 10, 25, 50, 100>>

\* The pageSizeOptions prop of the model: small sizes, under which the sample
\* record lists span several pages.
PageSizeOptionChoices == {<<1, 2>>}

\* Sample records: the fields name and age, one record without age.
Bob == [name |-> StrV(<<"B", "o", "b">>), age |-> NumV(30)]
Dan == [name |-> StrV(<<"D", "a", "n">>)]

RowUniverse == {Bob, Dan}

\* The columns props of the model, as lists of accessors.
ColumnChoices == {<<"name", "age">>, <<>>}

\* The texts the user types into the filter input.
FilterTexts == {<<>>, <<"b">>}

\* Every list of at most n elements of S.
SeqUpTo(S, n) == UNION {[1..m -> S] : m \in 0..n}

\* The event a step handles: the handler, its argument (the text of an input
\* or the accessor of a header) and the page index it found; for a click on a
\* row button, the position of the row on the page and the reference the
\* callback received.
NoEvent == [op |-> "mount", text |-> <<>>, key |-> "", from |-> Fin(0), index |-> 0, row |-> 0]
Event(op, text, key) ==
    [op |-> op, text |-> text, key |-> key, from |-> currentPage, index |-> 0, row |-> 0]
RowEvent(op, k, r) ==
    [op |-> op, text |-> <<>>, key |-> "", from |-> currentPage, index |-> k, row |-> r]

----------------------------------------------------------------------------
(* The event handlers. *)

\* onChange of the filter input: setGlobalFilter(e.target.value).
SetGlobalFilter(text) ==
    /\ text # globalFilter
    /\ globalFilter' = text
    /\ event' = Event("filter", text, "")
    /\ UNCHANGED <<props, currentPage, sortConfig, currentPageSize, harness>>

\* The updater without the toggle: the direction is ascending on every click.
NextSortConfig_AlwaysAscending(current, key) ==
    [key |-> Key(key), direction |-> "ascending"]

\* The updater with a third state: a click on the active key while the
\* direction is descending clears the sort.
NextSortConfig_Clearing(current, key) ==
    IF current.key = Key(key) /\ current.direction = "descending"
    THEN [key |-> NullKey, direction |-> "ascending"]
    ELSE [key |-> Key(key),
          direction |-> IF current.key = Key(key) THEN "descending" ELSE "ascending"]

\* The updater handleSort hands to setSortConfig.
NextSortConfig(current, key) ==
    [key |-> Key(key),
     direction |-> IF current.key = Key(key) /\ current.direction = "ascending"
                   THEN "descending" ELSE "ascending"]

\* handleSort without its early return on enableSorting.
handleSort_Unconditional(key) ==
    /\ event' = Event("sort", <<>>, key)
    /\ UNCHANGED <<props, currentPage, globalFilter, currentPageSize, harness>>
    /\ sortConfig' = [key |-> Key(key),
                      direction |-> IF sortConfig.key = Key(key) /\ sortConfig.direction = "ascending"
                                    THEN "descending" ELSE "ascending"]

\* onClick of a column header: handleSort(column.accessor).
handleSort(key) ==
    /\ event' = Event("sort", <<>>, key)
    /\ UNCHANGED <<props, currentPage, globalFilter, currentPageSize, harness>>
    /\ IF ~enableSorting
       THEN UNCHANGED sortConfig
       ELSE sortConfig' = NextSortConfig(sortConfig, key)
        
\* The value attribute of the option the user selects.
OptionValue(size) == String(NumV(size))

\* handlePageSizeChange without its setCurrentPage(0).
handlePageSizeChange_NoReset(value) ==
    /\ currentPageSize' = StringToNumber(value)
    /\ event' = Event("pageSize", value, "")
    /\ UNCHANGED <<props, currentPage, globalFilter, sortConfig, harness>>

\* onChange of the page-size select: handlePageSizeChange(e).
handlePageSizeChange(value) ==
    /\ currentPageSize' = StringToNumber(value)
    /\ currentPage' = Fin(0)
    /\ event' = Event("pageSize", value, "")
    /\ UNCHANGED <<props, globalFilter, sortConfig, harness>>

\* disabled of the first and previous buttons.
AtFirstPage == NumEq(currentPage, Fin(0))

\* disabled of the next and last buttons.
AtLastPage == NumEq(currentPage, NumAdd(totalPages, Fin(0 - 1)))

\* The page each navigation button sets when it is not disabled.
FirstTarget(p) == Fin(0)
PreviousTarget(p) == MathMax(Fin(0), NumAdd(p, Fin(0 - 1)))
NextTarget(p, total) == MathMin(NumAdd(total, Fin(0 - 1)), NumAdd(p, Fin(1)))
LastTarget(total) == NumAdd(total, Fin(0 - 1))

\* A click on a navigation button: nothing happens when it is disabled.
Navigate(op, disabled, target) ==
    /\ event' = Event(op, <<>>, "")
    /\ UNCHANGED <<props, globalFilter, sortConfig, currentPageSize, harness>>
    /\ IF disabled
       THEN UNCHANGED currentPage
       ELSE currentPage' = target
        
\* The next button without its disabled attribute and without Math.min.
NextPage_Unguarded == Navigate("next", FALSE, NumAdd(currentPage, Fin(1)))

FirstPage == Navigate("first", AtFirstPage, FirstTarget(currentPage))
PreviousPage == Navigate("previous", AtFirstPage, PreviousTarget(currentPage))
NextPage == Navigate("next", AtLastPage, NextTarget(currentPage, totalPages))
LastPage == Navigate("last", AtLastPage, LastTarget(totalPages))

\* The archive button of a row that removes the row from the record list.
ArchiveClick_Removing(k) ==
    /\ onArchive
    /\ k \in 1..Len(currentData)
    /\ event' = RowEvent("archive", k, currentData[k])
    /\ data' = SubSeq(data, 1, currentData[k] - 1) \o SubSeq(data, currentData[k] + 1, Len(data))
    /\ UNCHANGED <<columns, enableSorting, pageSizeOptions, onDelete, onArchive, engine, hooks, harness>>

\* onClick of the archive button of the k-th row of the page: onArchive(row).
\* The button is rendered when the callback is given.
ArchiveClick(k) ==
    /\ onArchive
    /\ k \in 1..Len(currentData)
    /\ event' = RowEvent("archive", k, currentData[k])
    /\ UNCHANGED <<props, hooks, harness>>

\* onClick of the delete button of the k-th row of the page: onDelete(row).
\* The button is rendered when the callback is given.
DeleteClick(k) ==
    /\ onDelete
    /\ k \in 1..Len(currentData)
    /\ event' = RowEvent("delete", k, currentData[k])
    /\ UNCHANGED <<props, hooks, harness>>

\* The embedding application hands the component a record list with one more
\* record at the end.
AppendRecord(row) ==
    /\ Len(data) < MaxRows
    /\ data' = Append(data, row)
    /\ event' = Event("data", <<>>, "")
    /\ UNCHANGED <<columns, enableSorting, pageSizeOptions, onDelete, onArchive, engine, hooks, harness>>

\* The embedding application hands the component a record list without the
\* record at position i.
RemoveRecord(i) ==
    /\ i \in 1..Len(data)
    /\ data' = SubSeq(data, 1, i - 1) \o SubSeq(data, i + 1, Len(data))
    /\ event' = Event("data", <<>>, "")
    /\ UNCHANGED <<columns, enableSorting, pageSizeOptions, onDelete, onArchive, engine, hooks, harness>>

----------------------------------------------------------------------------
(* The component: mounted with its props, then driven by the user and by   *)
(* the embedding application.                                              *)

\* The state after the first render with props d, cols, sorting, options and
\* pageSize.
MountedWith(d, cols, sorting, options, pageSize, del, arch) ==
    /\ engine \in Engines
    /\ onDelete = del
    /\ onArchive = arch
    /\ data = d
    /\ columns = cols
    /\ enableSorting = sorting
    /\ pageSizeOptions = options
    /\ currentPage = Fin(0)
    /\ globalFilter = <<>>
    /\ sortConfig = [key |-> NullKey, direction |-> "ascending"]
    /\ currentPageSize = Fin(pageSize)
    /\ event = NoEvent
    /\ ascPass = <<>>
    /\ descPass = <<>>

\* The state after the first render without the onDelete and onArchive props.
Mounted(d, cols, sorting, options, pageSize) ==
    MountedWith(d, cols, sorting, options, pageSize, FALSE, FALSE)

Init ==
    \E d \in SeqUpTo(RowUniverse, MaxRows), cols \in ColumnChoices, sorting \in BOOLEAN,
       options \in PageSizeOptionChoices :
        \E pageSize \in {options[i] : i \in 1..Len(options)} \cup {DefaultPageSize} :
            Mounted(d, cols, sorting, options, pageSize)

Next ==
    \/ \E text \in FilterTexts : SetGlobalFilter(text)
    \/ \E j \in 1..Len(columns) : handleSort(columns[j])
    \/ \E i \in 1..Len(pageSizeOptions) : handlePageSizeChange(OptionValue(pageSizeOptions[i]))
    \/ FirstPage
    \/ PreviousPage
    \/ NextPage
    \/ LastPage
    \/ \E row \in RowUniverse : AppendRecord(row)
    \/ \E i \in 1..Len(data) : RemoveRecord(i)

Spec == Init /\ [][Next]_vars

----------------------------------------------------------------------------
(* The filter stage alone: the component mounted on record lists and       *)
(* columns chosen to exercise the matching, then driven by the filter      *)
(* input only.                                                             *)

\* Records with mixed-case strings, a number, an empty string and missing fields.
FilterRowUniverse ==
    {[name |-> StrV(<<"A", "b">>), age |-> NumV(12)],
     [name |-> StrV(<<"b", "A">>)],
     [age |-> NumV(2)],
     [name |-> StrV(<<>>)]}

FilterColumnChoices == {<<>>, <<"name">>, <<"name", "age">>}

FilterProbeTexts == {<<>>, <<"a">>, <<"A", "B">>, <<"2">>, <<"u", "n">>}

InitFilter ==
    \E d \in SeqUpTo(FilterRowUniverse, MaxLen), cols \in FilterColumnChoices :
        Mounted(d, cols, TRUE, DefaultPageSizeOptions, DefaultPageSize)

NextFilter == \E text \in FilterProbeTexts : SetGlobalFilter(text)

SpecFilter == InitFilter /\ [][NextFilter]_vars

----------------------------------------------------------------------------
(* The sort stage alone: the component mounted on record lists whose sort  *)
(* column holds numbers or is missing, then driven by header clicks only.  *)

SortRowUniverse == {[age |-> NumV(1)], [age |-> NumV(2)], [name |-> StrV(<<"a">>)]}

InitSort ==
    \E d \in SeqUpTo(SortRowUniverse, MaxSortLen) :
        Mounted(d, <<"age", "name">>, TRUE, DefaultPageSizeOptions, DefaultPageSize)

NextSort == \E j \in 1..Len(columns) : handleSort(columns[j])

SpecSort == InitSort /\ [][NextSort]_vars

----------------------------------------------------------------------------
(* The sort stage applied twice: ascending on the filtered list, then      *)
(* descending on the result of the first pass.                             *)

\* sort(L, key, ascending) on the filtered list L.
SortAscending(key) ==
    /\ ascPass' = SortStage(engine, data, [key |-> Key(key), direction |-> "ascending"], filteredData)
    /\ descPass' = <<>>
    /\ event' = Event("sortAscending", <<>>, key)
    /\ UNCHANGED <<props, hooks>>

\* sort(ascPass, key, descending) on the result of the ascending pass.
SortDescending ==
    /\ event.op = "sortAscending"
    /\ descPass' = SortStage(engine, data, [key |-> Key(event.key), direction |-> "descending"], ascPass)
    /\ event' = Event("sortDescending", <<>>, event.key)
    /\ UNCHANGED <<props, hooks, ascPass>>

NextSortTwice ==
    \/ \E j \in 1..Len(columns) : SortAscending(columns[j])
    \/ SortDescending

SpecSortTwice == InitSort /\ [][NextSortTwice]_vars

----------------------------------------------------------------------------
(* The pagination stage alone: the component mounted on record lists of    *)
(* every length up to MaxPageRows, then driven by the page-size selector   *)
(* and the navigation buttons only.                                        *)

PageRowChoices == {[i \in 1..n |-> Bob] : n \in 0..MaxPageRows}

PagePageSizeOptions == <<1, 2, 3>>

InitPages ==
    \E d \in PageRowChoices, pageSize \in {1, 2, 3, DefaultPageSize} :
        Mounted(d, <<"name">>, FALSE, PagePageSizeOptions, pageSize)

NextPages ==
    \/ \E i \in 1..Len(pageSizeOptions) : handlePageSizeChange(OptionValue(pageSizeOptions[i]))
    \/ FirstPage
    \/ PreviousPage
    \/ NextPage
    \/ LastPage

SpecPages == InitPages /\ [][NextPages]_vars

----------------------------------------------------------------------------
(* The row buttons: the component mounted with or without each of the      *)
(* callbacks, then driven by the user.                                     *)

InitRowActions ==
    \E d \in SeqUpTo(RowUniverse, MaxLen), del \in BOOLEAN, arch \in BOOLEAN,
       pageSize \in {1, 2} :
        MountedWith(d, <<"name", "age">>, TRUE, <<1, 2>>, pageSize, del, arch)

NextRowActions ==
    \/ \E text \in FilterTexts : SetGlobalFilter(text)
    \/ \E j \in 1..Len(columns) : handleSort(columns[j])
    \/ \E i \in 1..Len(pageSizeOptions) : handlePageSizeChange(OptionValue(pageSizeOptions[i]))
    \/ FirstPage
    \/ PreviousPage
    \/ NextPage
    \/ LastPage
    \/ \E k \in 1..Len(currentData) : ArchiveClick(k)
    \/ \E k \in 1..Len(currentData) : DeleteClick(k)

SpecRowActions == InitRowActions /\ [][NextRowActions]_vars

----------------------------------------------------------------------------
(* Page sizes out of range: the component mounted with a pageSize prop and *)
(* pageSizeOptions that hold zero and a negative size, then driven by the  *)
(* page-size selector and the navigation buttons.                          *)

PageSizeProps == {0 - 1, 0, 1, 2}

OutOfRangePageSizeOptions == <<0 - 1, 0, 2>>

\* With page size 0 the page count is Infinity and next counts without end:
\* the model follows it up to MaxPage.
PageBelowBound == currentPage.k # "fin" \/ currentPage.v < MaxPage

InitPageSize ==
    \E d \in SeqUpTo({Bob}, MaxLen), pageSize \in PageSizeProps :
        Mounted(d, <<"name">>, FALSE, OutOfRangePageSizeOptions, pageSize)

NextPageSize ==
    \/ \E i \in 1..Len(pageSizeOptions) : handlePageSizeChange(OptionValue(pageSizeOptions[i]))
    \/ FirstPage
    \/ PreviousPage
    \/ PageBelowBound /\ NextPage
    \/ LastPage

SpecPageSize == InitPageSize /\ [][NextPageSize]_vars

----------------------------------------------------------------------------
(* Properties of the page index. *)

\* x <= y on numbers.
NumLe(x, y) == NumLt(x, y) \/ NumEq(x, y)

\* ceil(number of filtered records / current page size).
PageCount == MathCeilDiv(Len(filteredData), currentPageSize)

\* Whether page index p lies in [0, total - 1].
InPageRange(p, total) == NumLe(Fin(0), p) /\ NumLe(p, NumAdd(total, Fin(0 - 1)))

NavigationOps == {"first", "previous", "next", "last"}

\* C1: in every reachable state the current page index is at least 0 and at
\* most the total page count - 1, the total page count being
\* ceil(number of filtered records / current page size).
C1_PageIndexInRange == InPageRange(currentPage, PageCount)

\* C2: a step that changes the filter text ends with the page index 0.
C2_FilterChangeResetsPage ==
    [][event'.op = "filter" => currentPage' = Fin(0)]_vars

\* C3: a step of the page-size selector ends with the page size equal to the
\* selected option and the page index 0, whatever the page index was.
C3_PageSizeChangeResetsPage ==
    [][event'.op = "pageSize" =>
          /\ currentPage' = Fin(0)
          /\ \E i \in 1..Len(pageSizeOptions) :
                /\ event'.text = OptionValue(pageSizeOptions[i])
                /\ currentPageSize' = Fin(pageSizeOptions[i])]_vars

\* C3 witness: the selector was used on a page other than the first, with
\* size 2 selected.
C3_Witness ==
    /\ event.op = "pageSize"
    /\ event.from = Fin(2)
    /\ event.text = <<"2">>
    /\ currentPageSize = Fin(2)
    /\ currentPage = Fin(0)

\* C4: each of first, previous, next and last leaves the page index inside
\* [0, total page count - 1], from any reachable state.
C4_NavigationStaysInRange ==
    [][event'.op \in NavigationOps => InPageRange(currentPage', totalPages')]_vars

\* C5: previous or first at page index 0, and next or last at page index
\* total page count - 1, change neither the page index nor any other state.
C5_BoundaryNavigationIsNoOp ==
    [][(\/ event'.op \in {"first", "previous"} /\ NumEq(currentPage, Fin(0))
        \/ event'.op \in {"next", "last"}
              /\ NumEq(currentPage, NumAdd(totalPages, Fin(0 - 1))))
          => UNCHANGED <<props, hooks, harness>>]_vars

\* C5 witness: next was clicked on the last of two pages.
C5_Witness ==
    /\ event.op = "next"
    /\ event.from = Fin(1)
    /\ totalPages = Fin(2)
    /\ currentPage = Fin(1)

----------------------------------------------------------------------------
(* Properties of the filter stage. *)

\* Whether needle occurs in hay at some offset.
Occurs(needle, hay) ==
    \E k \in 0..(Len(hay) - Len(needle)) : SubSeq(hay, k + 1, k + Len(needle)) = needle

\* The references of a list of references.
Refs(list) == {list[i] : i \in 1..Len(list)}

\* Whether a list of references is in the order of the record list, without
\* repetition.
InRecordOrder(list) == \A i, j \in 1..Len(list) : i < j => list[i] < list[j]

\* Whether some column of the record has a stringified, lower-cased value
\* in which the lower-cased text occurs.
SomeColumnContains(row, text) ==
    \E j \in 1..Len(columns) :
        Occurs(ToLowerCase(text), ToLowerCase(String(Get(row, columns[j]))))

\* C6: the filter stage returns exactly the records for which at least one
\* column has a stringified, lower-cased value containing the lower-cased
\* filter text, in their original order.
C6_FilterSelectsMatchingRecords ==
    /\ Refs(filteredData) \subseteq 1..Len(data)
    /\ InRecordOrder(filteredData)
    /\ \A i \in 1..Len(data) :
          i \in Refs(filteredData) <=> SomeColumnContains(data[i], globalFilter)

\* C6 witness: a non-empty text was typed, the second record was kept for its
\* second column alone and the first record was dropped.
C6_Witness ==
    /\ event.op = "filter"
    /\ globalFilter = <<"2">>
    /\ columns = <<"name", "age">>
    /\ Len(data) = 2
    /\ filteredData = <<2>>
    /\ ~Occurs(<<"2">>, ToLowerCase(String(Get(data[2], "name"))))

\* The list of all the references of the record list, in order.
AllRecords == [i \in 1..Len(data) |-> i]

\* C7 as stated: with the empty filter text the filter stage returns the
\* record list unchanged, for every column list, the empty one included.
C7_EmptyFilterIsIdentity == globalFilter = <<>> => filteredData = AllRecords

\* C7 as amended: with the empty filter text and at least one column the
\* filter stage returns the record list unchanged.
C7_EmptyFilterIsIdentityWithColumns ==
    (globalFilter = <<>> /\ columns # <<>>) => filteredData = AllRecords

\* C7 witness: the filter text was cleared again over two records, one of
\* them with an empty string in the only column and one without the field.
C7_Witness ==
    /\ event.op = "filter"
    /\ globalFilter = <<>>
    /\ columns = <<"name">>
    /\ Len(data) = 2
    /\ \E i \in 1..2 : Get(data[i], "name") = StrV(<<>>)
    /\ \E i \in 1..2 : "name" \notin DOMAIN data[i]
    /\ filteredData = <<1, 2>>

\* The text a column contributes when a missing field counts as the empty string.
TextOrEmpty(row, accessor) ==
    IF accessor \in DOMAIN row THEN String(row[accessor]) ELSE <<>>

\* C8: a missing field counts as the empty string, so under a non-empty filter
\* text every selected record has a column whose field is present and matches.
C8_MissingFieldIsEmptyString ==
    globalFilter # <<>> =>
        \A i \in Refs(filteredData) :
            \E j \in 1..Len(columns) :
                Occurs(ToLowerCase(globalFilter), ToLowerCase(TextOrEmpty(data[i], columns[j])))

----------------------------------------------------------------------------
(* Properties of the sort stage. *)

\* The position of reference r in a list that holds it once.
Position(list, r) == CHOOSE i \in 1..Len(list) : list[i] = r

\* Whether two lists hold the same references, each once.
IsArrangement(list, of) ==
    /\ Len(list) = Len(of)
    /\ Refs(list) = Refs(of)

\* The value of the record behind reference r at the accessor.
ValueAt(r, accessor) == Get(data[r], accessor)

\* C9: the sort stage returns a permutation of the filtered list: the filtered
\* list itself with no active key; with an active key, non-decreasing
\* (ascending) or non-increasing (descending) in the value at the key, records
\* with equal values keeping the order of the filtered list.
C9_SortIsOrderedStablePermutation ==
    /\ IsArrangement(sortedData, filteredData)
    /\ sortConfig.key.isNull => sortedData = filteredData
    /\ ~sortConfig.key.isNull =>
          \A i, j \in 1..Len(sortedData) :
              i < j =>
                  LET a == ValueAt(sortedData[i], sortConfig.key.name)
                      b == ValueAt(sortedData[j], sortConfig.key.name)
                  IN  /\ sortConfig.direction = "ascending" => ~Greater(a, b)
                      /\ sortConfig.direction = "descending" => ~Less(a, b)
                      /\ a = b => sortedData[i] < sortedData[j]

\* C10: every two records with different values at the key stand in the
\* descending sort of the ascending sort in the reverse of their order in the
\* ascending sort.
C10_DescendingReversesAscending ==
    event.op = "sortDescending" =>
        \A r, q \in Refs(ascPass) :
            ValueAt(r, event.key) # ValueAt(q, event.key) =>
                (Position(ascPass, r) < Position(ascPass, q)
                    <=> Position(descPass, r) > Position(descPass, q))

----------------------------------------------------------------------------
(* Properties of the sort state. *)

\* C11: with sorting enabled, a click on the header of the active key while
\* the direction is ascending gives the same key with direction descending,
\* and a click on the header of another column, or with no key active, gives
\* that column as key with direction ascending.
C11_ToggleRule ==
    [][(event'.op = "sort" /\ enableSorting) =>
          /\ sortConfig'.key = Key(event'.key)
          /\ (sortConfig.key = Key(event'.key) /\ sortConfig.direction = "ascending")
                => sortConfig'.direction = "descending"
          /\ sortConfig.key # Key(event'.key) => sortConfig'.direction = "ascending"]_vars

\* C11 witness: the header of name was clicked while name was the key with
\* direction ascending, so the records Bob, Dan are shown as Dan, Bob.
C11_Witness ==
    /\ enableSorting
    /\ event.op = "sort"
    /\ event.key = "name"
    /\ sortConfig = [key |-> Key("name"), direction |-> "descending"]
    /\ data = <<Bob, Dan>>
    /\ globalFilter = <<>>
    /\ sortedData = <<2, 1>>

\* C12: with sorting disabled a click on a header changes neither the sort
\* state nor any other state, the sort key is none in every reachable state
\* and the sorted list is the filtered list.
C12_DisabledSortIsNoOp ==
    /\ [](~enableSorting => (sortConfig.key.isNull /\ sortedData = filteredData))
    /\ [][(event'.op = "sort" /\ ~enableSorting) => UNCHANGED <<props, hooks, harness>>]_vars

\* C12 witness: with sorting disabled the header of name was clicked over the
\* records Dan, Bob, which a sort by name would have exchanged.
C12_Witness ==
    /\ ~enableSorting
    /\ event.op = "sort"
    /\ event.key = "name"
    /\ data = <<Dan, Bob>>
    /\ globalFilter = <<>>
    /\ sortConfig = [key |-> NullKey, direction |-> "ascending"]
    /\ sortedData = <<1, 2>>

----------------------------------------------------------------------------
(* Properties of the pagination stage. *)

\* The slices of the pages 0 .. k - 1 of the sorted list, one after the other.
RECURSIVE PagesUpTo(_)
PagesUpTo(k) ==
    IF k <= 0 THEN <<>>
    ELSE PagesUpTo(k - 1) \o CurrentData(sortedData, Fin(k - 1), currentPageSize)

\* ceil(n / s) on naturals, s >= 1.
CeilDiv(n, s) == (n + s - 1) \div s

\* C13: for a page size s >= 1 the total page count is ceil(n / s), 0 for
\* the empty list; the slices of the pages 0 .. total - 1 in order make up the
\* sorted list exactly; every page but the last has s records and the last
\* has between 1 and s.
C13_PagesPartitionSortedList ==
    (currentPageSize.k = "fin" /\ currentPageSize.v >= 1) =>
        LET n == Len(sortedData)
            s == currentPageSize.v
            total == CeilDiv(n, s)
            page(i) == CurrentData(sortedData, Fin(i), currentPageSize)
        IN  /\ totalPages = Fin(total)
            /\ n = 0 => totalPages = Fin(0)
            /\ PagesUpTo(total) = sortedData
            /\ \A i \in 0..(total - 2) : Len(page(i)) = s
            /\ total >= 1 => Len(page(total - 1)) \in 1..s

\* C13 witness: five records under page size 2, shown on the third of three
\* pages, which holds the fifth record alone.
C13_Witness ==
    /\ Len(sortedData) = 5
    /\ currentPageSize = Fin(2)
    /\ totalPages = Fin(3)
    /\ event.op = "next"
    /\ currentPage = Fin(2)
    /\ currentData = <<5>>
    /\ CurrentData(sortedData, Fin(0), currentPageSize) = <<1, 2>>
    /\ CurrentData(sortedData, Fin(1), currentPageSize) = <<3, 4>>

----------------------------------------------------------------------------
(* Properties of the row buttons. *)

\* C14: a click on the delete or archive button of a displayed row hands the
\* callback the record of exactly that row and changes no state: the filter
\* text, the sort state, the page index, the page size and the record list
\* are unchanged, and the row is still displayed at its position.
C14_RowActionsChangeNoState ==
    /\ [][event'.op \in {"delete", "archive"} =>
             /\ event'.index \in 1..Len(currentData)
             /\ event'.row = currentData[event'.index]
             /\ UNCHANGED <<props, hooks, harness>>]_vars
    /\ [](event.op \in {"delete", "archive"} =>
             /\ event.index \in 1..Len(currentData)
             /\ currentData[event.index] = event.row)

\* C14 witness: on the second page of the records Bob, Dan sorted by name
\* descending, the archive button of the only row was clicked: the callback
\* received the first record, which is still displayed.
C14_Witness ==
    /\ event.op = "archive"
    /\ event.index = 1
    /\ event.row = 1
    /\ event.from = Fin(1)
    /\ data = <<Bob, Dan>>
    /\ sortConfig = [key |-> Key("name"), direction |-> "descending"]
    /\ currentPageSize = Fin(1)
    /\ currentPage = Fin(1)
    /\ currentData = <<1>>

----------------------------------------------------------------------------
(* Properties of the page size. *)

\* C15: the page size the total page count and the slice are computed from
\* is at least 1, whatever pageSize prop and whatever option was given.
C15_PageSizeAtLeastOne ==
    /\ currentPageSize.k = "fin"
    /\ currentPageSize.v >= 1

----------------------------------------------------------------------------
(* Invariants of the sort state. *)

\* C16: the direction is ascending or descending, and ascending while no key
\* is active; an active key is the accessor of some column; and no step
\* takes the sort state from an active key back to none.
C16_SortStateInvariants ==
    /\ [](/\ sortConfig.direction \in {"ascending", "descending"}
          /\ sortConfig.key.isNull => sortConfig.direction = "ascending"
          /\ ~sortConfig.key.isNull =>
                \E j \in 1..Len(columns) : sortConfig.key = Key(columns[j]))
    /\ [][~sortConfig.key.isNull => ~sortConfig'.key.isNull]_vars

\* C16 witness: age is the active key and the sort is still active after
\* the filter text was changed.
C16_Witness ==
    /\ event.op = "filter"
    /\ globalFilter = <<"b">>
    /\ sortConfig = [key |-> Key("age"), direction |-> "ascending"]
    /\ columns = <<"name", "age">>
    /\ Len(data) = MaxRows

====
